---- MODULE Spec2Model ----
(***************************************************************************)
(* queuectl (rohitkamalv/flam): the job table of src/database.js, the      *)
(* worker loop of src/worker.js, the configuration file of src/config.js   *)
(* and the CLI handlers of src/index.js, as one state machine.             *)
(*                                                                         *)
(* Every process (each worker, each CLI invocation) is a separate OS       *)
(* process; they share the SQLite table, config.json and the clock.  One   *)
(* SQL statement / one db.transaction is one atomic step.                  *)
(***************************************************************************)
EXTENDS Integers, Sequences, FiniteSets, TLC

\* ---------------------------------------------------------------- bounds
MaxTime == 1            \* the clock ticks through 0..MaxTime (seconds)
MaxRetriesCfg == 2      \* max_retries is set within 1..MaxRetriesCfg
MaxPid == 3             \* worker processes are spawned with pids 1..MaxPid
MaxCount == 2           \* `worker start --count` is within 0..MaxCount
MaxBaseCfg == 1         \* backoff_base is set within 0..MaxBaseCfg

\* The row ids the table may come to hold (AUTOINCREMENT: 1, 2, ...).
JobSlots == {1, 2}

\* The CLI processes that may run workerManager functions at the same time.
Sups == {"s1", "s2"}

\* The worker processes (pids).
Workers == {"w1", "w2"}

\* SQL NULL in an INTEGER column / JS null.
NULL == -1

\* getJobForWorker(lockDurationSeconds = 300)
LockDuration == 300

\* backoff_base fallback of getJobForWorker: config.backoff_base || 2
DefaultBackoffBase == 2

VARIABLES
    jobs,       \* the jobs table: a sequence of rows, row i has id i
    cfg,        \* config.json: [max_retries, backoff_base]
    now,        \* Math.floor(Date.now() / 1000)
    pc,         \* each worker's position in workerLoop / processJob
    job,        \* each worker's `job` (the snapshot getJobForWorker returned)
    maxRetries, \* each worker's `maxRetries` local of processJob's catch block
    dlq,        \* what the last `dlq retry` invocation did and printed
    enq,        \* how the last `enqueue` invocation ended: none, ok, error
    runs,       \* history: per job, commands run since enqueue / DLQ reset
    decided,    \* history: per dead job, the maxRetries that the failure
                \* report which declared it dead compared against (else NULL)
    stop,       \* each worker's `isShuttingDown`
    dbError,    \* per worker: getJobForWorker threw in its last call ("yes"),
                \* in an earlier call only ("past"), or never ("no")
    registry,   \* worker-pids.json: the sequence of pids it holds
    alive,      \* the pids of the worker processes that exist
    sigterm,    \* history: the pids that were sent SIGTERM
    ret,        \* the last workerManager call: its name, argument, returned
                \* pids and the pids it sent SIGTERM
    nextPid,    \* the pid the next fork gets
    inv         \* each running workerManager invocation: where it is, what
                \* it was called with, its activePids, its startedPids or
                \* stoppedPids

\* The job queue's and the workers' part of the state.
queue == <<jobs, cfg, now, pc, job, maxRetries, dlq, enq, runs, decided,
           stop, dbError>>

\* The supervisor's part of the state.
sup == <<registry, alive, sigterm, ret, nextPid, inv>>

vars == <<jobs, cfg, now, pc, job, maxRetries, dlq, enq, runs, decided,
          stop, dbError, registry, alive, sigterm, ret, nextPid, inv>>

\* ---------------------------------------------------------------- helpers
RECURSIVE POWER(_, _)
\* SQLite's POWER(base, attempts) on the integers the model uses.
POWER(b, e) == IF e = 0 THEN 1 ELSE b * POWER(b, e - 1)

JobIds == 1..Len(jobs)

\* The values of the payload's "command" the model enqueues: "" stands for
\* an empty or missing command.
Commands == {"", "cmd"}

\* The values of the payload's "id" the model enqueues: "NULL" for none.
UserIds == {"NULL", "a", "b"}

\* The row INSERTed by enqueueJob, with the column defaults of the schema.
NewJob(id, cmd, uid, t) ==
    [ id              |-> id,
      user_id         |-> uid,
      command         |-> cmd,
      status          |-> "pending",
      attempts        |-> 0,
      last_attempt_at |-> NULL,
      created_at      |-> t,
      completed_at    |-> NULL,
      error_message   |-> "NULL",
      locked_until    |-> NULL ]

\* Faulty variant: a processing row whose lease is absent or expired is offered too.
EligibleReclaimsProcessing(r, base, t) ==
    /\ \/ r.status = "pending"
       \/ r.status = "processing"
       \/ /\ r.status = "failed"
          /\ \/ r.last_attempt_at = NULL
             \/ r.last_attempt_at + POWER(base, r.attempts) <= t
    /\ (r.locked_until = NULL \/ r.locked_until <= t)

\* Faulty variant: the WHERE clause lacks the failed alternative.
EligiblePendingOnly(r, base, t) ==
    /\ r.status = "pending"
    /\ (r.locked_until = NULL \/ r.locked_until <= t)

\* Faulty variant: the backoff window of a failed row is not looked at.
EligibleNoBackoff(r, base, t) ==
    /\ r.status \in {"pending", "failed"}
    /\ (r.locked_until = NULL \/ r.locked_until <= t)

\* Faulty variant: user_id is not declared UNIQUE.
UniqueViolationNever(js, uid) == FALSE

\* user_id TEXT UNIQUE: the INSERT raises a constraint error (NULLs never
\* collide).
UniqueViolation(js, uid) ==
    uid # "NULL" /\ \E i \in 1..Len(js) : js[i].user_id = uid

\* id INTEGER PRIMARY KEY AUTOINCREMENT: one more than the largest id the
\* table ever held (rows are never deleted).
NextRowId(js) ==
    IF Len(js) = 0 THEN 1
    ELSE 1 + (CHOOSE m \in {js[i].id : i \in 1..Len(js)} :
                 \A i \in 1..Len(js) : js[i].id <= m)

\* enqueueJob(command, user_id): the table after the INSERT.
EnqueueJob(js, cmd, uid, t) ==
    Append(js, NewJob(NextRowId(js), cmd, uid, t))

\* The WHERE clause of getJobForWorker's SELECT.
Eligible(r, base, t) ==
    /\ \/ r.status = "pending"
       \/ /\ r.status = "failed"
          /\ \/ r.last_attempt_at = NULL
             \/ r.last_attempt_at + POWER(base, r.attempts) <= t
    /\ (r.locked_until = NULL \/ r.locked_until <= t)

\* Faulty variant: the base is fixed at its default, the file is not read.
BackoffBaseCached(c) == DefaultBackoffBase

\* const backoffBase = config.backoff_base || 2   (0 and unset are falsy)
BackoffBase(c) ==
    IF c.backoff_base = 0 THEN DefaultBackoffBase ELSE c.backoff_base

\* Faulty variant: ORDER BY created_at DESC.
SelectAvailableNewest(js, base, t) ==
    LET el == { i \in 1..Len(js) : Eligible(js[i], base, t) }
    IN  IF el = {} THEN 0
        ELSE CHOOSE i \in el :
               \A k \in el : \/ js[i].created_at > js[k].created_at
                             \/ (js[i].created_at = js[k].created_at /\ i >= k)

\* SELECT ... ORDER BY created_at ASC LIMIT 1: 0 when no row matches.  The
\* table is scanned in rowid order and the sort keeps that order among equal
\* keys, so of several rows with the earliest created_at the first is taken.
SelectAvailable(js, base, t) ==
    LET el == { i \in 1..Len(js) : Eligible(js[i], base, t) }
    IN  IF el = {} THEN 0
        ELSE CHOOSE i \in el :
               \A k \in el : \/ js[i].created_at < js[k].created_at
                             \/ (js[i].created_at = js[k].created_at /\ i <= k)

\* getJobForWorker's UPDATE of the selected row (started_at and updated_at,
\* which no decision reads, are not kept).
ClaimUpdate(js, id, t) ==
    [js EXCEPT ![id].status = "processing",
               ![id].locked_until = t + LockDuration]

\* Faulty variant: the SET list lacks 'locked_until = NULL'.
UpdateJobStatusKeepsLease(js, id, newStatus, msg, t) ==
    IF id \notin 1..Len(js) THEN js
    ELSE [js EXCEPT
           ![id].status = newStatus,
           ![id].completed_at =
               IF newStatus = "completed" THEN t ELSE @,
           ![id].error_message =
               IF newStatus \in {"failed", "dead"} /\ msg # "NULL" THEN msg ELSE @]

\* updateJobStatus(job_id, newStatus, {errorMessage}): UPDATE ... WHERE id = ?
\* msg = "NULL" stands for an errorMessage that is undefined.
UpdateJobStatus(js, id, newStatus, msg, t) ==
    IF id \notin 1..Len(js) THEN js
    ELSE [js EXCEPT
           ![id].status = newStatus,
           ![id].locked_until = NULL,
           ![id].completed_at =
               IF newStatus = "completed" THEN t ELSE @,
           ![id].error_message =
               IF newStatus \in {"failed", "dead"} /\ msg # "NULL" THEN msg ELSE @]

\* Faulty variant: the SET list lacks 'attempts = attempts + 1'.
IncrementJobAttemptsStale(js, id, msg, t) ==
    IF id \notin 1..Len(js) THEN js
    ELSE [js EXCEPT
           ![id].last_attempt_at = t,
           ![id].locked_until = NULL,
           ![id].error_message = IF msg # "NULL" THEN msg ELSE @]

\* Faulty variant: the SET list lacks 'locked_until = NULL'.
IncrementJobAttemptsKeepsLease(js, id, msg, t) ==
    IF id \notin 1..Len(js) THEN js
    ELSE [js EXCEPT
           ![id].attempts = @ + 1,
           ![id].last_attempt_at = t,
           ![id].error_message = IF msg # "NULL" THEN msg ELSE @]

\* incrementJobAttempts(job_id, error_message)
IncrementJobAttempts(js, id, msg, t) ==
    IF id \notin 1..Len(js) THEN js
    ELSE [js EXCEPT
           ![id].attempts = @ + 1,
           ![id].last_attempt_at = t,
           ![id].locked_until = NULL,
           ![id].error_message = IF msg # "NULL" THEN msg ELSE @]

\* Faulty variant: the WHERE clause lacks "AND status = 'dead'".
DlqMatchAnyStatus(js, id) == id \in 1..Len(js)

\* The rows retryDlqJob's UPDATE matches: WHERE id = ? AND status = 'dead'
DlqMatch(js, id) == id \in 1..Len(js) /\ js[id].status = "dead"

\* Faulty variant: the SET list lacks 'attempts = 0'.
RetryDlqJobKeepsAttempts(js, id) ==
    IF ~DlqMatch(js, id) THEN js
    ELSE [js EXCEPT
           ![id].status = "pending",
           ![id].last_attempt_at = NULL,
           ![id].error_message = "NULL",
           ![id].locked_until = NULL]

\* retryDlqJob(job_id)
RetryDlqJob(js, id) ==
    IF ~DlqMatch(js, id) THEN js
    ELSE [js EXCEPT
           ![id].status = "pending",
           ![id].attempts = 0,
           ![id].last_attempt_at = NULL,
           ![id].error_message = "NULL",
           ![id].locked_until = NULL]

\* getJobsByStatus(status): the ids of the rows SELECTed, in rowid order.
GetJobsByStatus(js, st) ==
    SelectSeq([i \in 1..Len(js) |-> i],
              LAMBDA i : st = "NULL" \/ js[i].status = st)

\* `let job = null` of workerLoop.
NoJob == [id |-> 0, attempts |-> 0]

\* Faulty variant: > for >=.
IsDeadStrict(snapshotAttempts, mr) == snapshotAttempts + 1 > mr

\* Faulty variant: the job is declared dead one failure early.
IsDeadEarly(snapshotAttempts, mr) == snapshotAttempts + 2 >= mr

\* processJob's test: job.attempts + 1 >= maxRetries
IsDead(snapshotAttempts, mr) == snapshotAttempts + 1 >= mr

\* Faulty variant: the loop never looks at isShuttingDown.
ShuttingDownNever(w) == FALSE

\* workerLoop's test at the top of each iteration: if (isShuttingDown).
ShuttingDown(w) == stop[w]

\* The writes by which processJob reports an outcome: updateJobStatus alone
\* for completed; incrementJobAttempts, then updateJobStatus, for failed and
\* dead.
ApplyOutcome(js, id, outcome, t) ==
    IF outcome = "completed"
    THEN UpdateJobStatus(js, id, "completed", "NULL", t)
    ELSE UpdateJobStatus(IncrementJobAttempts(js, id, "err", t),
                         id, outcome, "err", t)

\* A CLI process that is not inside a workerManager function.
Idle == [pc |-> "idle", op |-> "none", arg |-> NULL,
         active |-> <<>>, moved |-> <<>>]

\* ---------------------------------------------------------------- Init
Init ==
    /\ jobs = <<>>
    /\ cfg \in [ max_retries : 1..MaxRetriesCfg, backoff_base : 0..MaxBaseCfg ]
    /\ now = 0
    /\ pc = [w \in Workers |-> "poll"]
    /\ job = [w \in Workers |-> NoJob]
    /\ maxRetries = [w \in Workers |-> 0]
    /\ dlq = [said |-> "none", changes |-> 0]
    /\ enq = "none"
    /\ runs = <<>>
    /\ decided = <<>>
    /\ stop = [w \in Workers |-> FALSE]
    /\ dbError = [w \in Workers |-> "no"]
    /\ registry = <<>>
    /\ alive = {}
    /\ sigterm = {}
    /\ ret = [op |-> "none", arg |-> NULL, pids |-> <<>>, signalled |-> {}]
    /\ nextPid = 1
    /\ inv = [s \in Sups |-> Idle]

\* ---------------------------------------------------------------- actions
\* The clock advances.
Tick ==
    /\ now < MaxTime
    /\ now' = now + 1
    /\ UNCHANGED <<jobs, cfg, pc, job, maxRetries, dlq, runs, decided, enq, stop, dbError,
                   sup>>

\* The clock advances by a whole lock duration: every lease taken so far has
\* expired and every backoff window is over.
LongTick ==
    /\ now = MaxTime
    /\ now' = now + LockDuration
    /\ UNCHANGED <<jobs, cfg, pc, job, maxRetries, dlq, runs, decided, enq, stop, dbError,
                   sup>>

\* `queuectl enqueue '{"id": uid, "command": cmd}'`: the handler of
\* src/index.js.  A missing command, and an error thrown by enqueueJob, end
\* the command with an error message and exit status 1.
EnqueueCmd(cmd, uid) ==
    /\ IF cmd = "" \/ UniqueViolation(jobs, uid)
       THEN /\ enq' = "error"
            /\ UNCHANGED <<jobs, runs, decided>>
       ELSE /\ Len(jobs) + 1 \in JobSlots
            /\ jobs' = EnqueueJob(jobs, cmd, uid, now)
            /\ enq' = "ok"
            /\ runs' = Append(runs, 0)
            /\ decided' = Append(decided, NULL)
    /\ UNCHANGED <<cfg, now, pc, job, maxRetries, dlq, stop, dbError,
                   sup>>

\* An enqueue of a command with no "id".
Enqueue == EnqueueCmd("cmd", "NULL")

\* `queuectl config set <key> <value>` -> set(key, value)
ConfigSet ==
    /\ \/ \E v \in 1..MaxRetriesCfg : cfg' = [cfg EXCEPT !.max_retries = v]
       \/ \E v \in 0..MaxBaseCfg : cfg' = [cfg EXCEPT !.backoff_base = v]
    /\ UNCHANGED <<jobs, now, pc, job, maxRetries, dlq, runs, decided, enq, stop, dbError,
                   sup>>

\* workerLoop: job = await getJobForWorker(); the transaction is one step.
\* With a job, processJob starts its command; without, the loop sleeps and
\* polls again.
Poll(w) ==
    /\ pc[w] = "poll"
    /\ ~ShuttingDown(w)
    /\ LET id == SelectAvailable(jobs, BackoffBase(cfg), now)
       IN  IF id # 0
           THEN /\ jobs' = ClaimUpdate(jobs, id, now)
                /\ job' = [job EXCEPT ![w] =
                             [id |-> id, attempts |-> jobs[id].attempts]]
                /\ pc' = [pc EXCEPT ![w] = "exec"]
                /\ runs' = [runs EXCEPT ![id] = @ + 1]
           ELSE /\ job' = [job EXCEPT ![w] = NoJob]
                /\ UNCHANGED <<jobs, pc, runs>>
    /\ dbError' = [dbError EXCEPT ![w] = IF @ = "no" THEN "no" ELSE "past"]
    /\ UNCHANGED <<cfg, now, maxRetries, dlq, decided, enq, stop,
                   sup>>

\* processJob, try block: the command exits 0 and the row is marked completed.
ExecOk(w) ==
    /\ pc[w] = "exec"
    /\ jobs' = UpdateJobStatus(jobs, job[w].id, "completed", "NULL", now)
    /\ pc' = [pc EXCEPT ![w] = "poll"]
    /\ job' = [job EXCEPT ![w] = NoJob]
    /\ UNCHANGED <<cfg, now, maxRetries, dlq, runs, decided, enq, stop, dbError,
                   sup>>

\* processJob, catch block up to incrementJobAttempts: the command fails, the
\* configuration is read, the attempt is counted.
ExecFail(w) ==
    /\ pc[w] = "exec"
    /\ maxRetries' = [maxRetries EXCEPT ![w] = cfg.max_retries]
    /\ jobs' = IncrementJobAttempts(jobs, job[w].id, "err", now)
    /\ pc' = [pc EXCEPT ![w] = "report"]
    /\ UNCHANGED <<cfg, now, job, dlq, runs, decided, enq, stop, dbError,
                   sup>>

\* processJob, catch block: the dead-or-failed write, then `finally`.  The
\* errorMessage it passes is the one incrementJobAttempts has just stored in
\* the row, which nobody else writes meanwhile.
Report(w) ==
    /\ pc[w] = "report"
    /\ jobs' = UpdateJobStatus(jobs, job[w].id,
                   IF IsDead(job[w].attempts, maxRetries[w])
                   THEN "dead" ELSE "failed",
                   jobs[job[w].id].error_message, now)
    /\ pc' = [pc EXCEPT ![w] = "poll"]
    /\ job' = [job EXCEPT ![w] = NoJob]
    /\ maxRetries' = [maxRetries EXCEPT ![w] = 0]
    /\ decided' = [decided EXCEPT ![job[w].id] =
                       IF IsDead(job[w].attempts, maxRetries[w])
                       THEN maxRetries[w] ELSE NULL]
    /\ UNCHANGED <<cfg, now, dlq, runs, enq, stop, dbError,
                   sup>>

\* `queuectl dlq retry <jobId>`: the handler of src/index.js.  `changes` is
\* what stmt.run() returned, which the handler does not look at.
DlqRetry(id) ==
    /\ IF id = 0
       THEN /\ dlq' = [said |-> "error", changes |-> 0]
            /\ UNCHANGED <<jobs, runs, decided>>
       ELSE /\ jobs' = RetryDlqJob(jobs, id)
            /\ dlq' = [said |-> "success",
                       changes |-> IF DlqMatch(jobs, id) THEN 1 ELSE 0]
            /\ runs' = IF DlqMatch(jobs, id)
                       THEN [runs EXCEPT ![id] = 0] ELSE runs
            /\ decided' = IF DlqMatch(jobs, id)
                          THEN [decided EXCEPT ![id] = NULL] ELSE decided
    /\ UNCHANGED <<cfg, now, pc, job, maxRetries, enq, stop, dbError,
                   sup>>

Next ==
    \/ Tick
    \/ LongTick
    \/ Enqueue
    \/ ConfigSet
    \/ \E w \in Workers : Poll(w)
    \/ \E w \in Workers : ExecOk(w)
    \/ \E w \in Workers : ExecFail(w)
    \/ \E w \in Workers : Report(w)
    \/ \E id \in {0} \cup JobSlots : DlqRetry(id)

Spec == Init /\ [][Next]_vars

\* The queue with every enqueue payload of Commands x UserIds (the
\* configuration stays as it was at the start).
NextEnq ==
    \/ \E cmd \in Commands, uid \in UserIds : EnqueueCmd(cmd, uid)
    \/ Tick
    \/ \E w \in Workers : Poll(w)
    \/ \E w \in Workers : ExecOk(w)
    \/ \E w \in Workers : ExecFail(w)
    \/ \E w \in Workers : Report(w)
    \/ \E id \in {0} \cup JobSlots : DlqRetry(id)

SpecEnq == Init /\ [][NextEnq]_vars

\* The signal handler of SIGTERM / SIGINT runs: shutdown() sets the flag.
\* Handlers run on the event loop, that is while the worker sleeps between
\* polls or awaits its command.
Signal(w) ==
    /\ pc[w] \in {"poll", "exec"}
    /\ ~stop[w]
    /\ stop' = [stop EXCEPT ![w] = TRUE]
    /\ UNCHANGED <<jobs, cfg, now, pc, job, maxRetries, dlq, enq, runs,
                   decided, dbError,
                   sup>>

\* Faulty variant: a worker told to stop only sleeps and iterates again.
ExitSleeps(w) ==
    /\ pc[w] = "poll"
    /\ ShuttingDown(w)
    /\ UNCHANGED vars

\* workerLoop, top of an iteration with isShuttingDown set: currentJob is
\* null there (processJob's finally has run), so the process exits.
Exit(w) ==
    /\ pc[w] = "poll"
    /\ ShuttingDown(w)
    /\ pc' = [pc EXCEPT ![w] = "exited"]
    /\ UNCHANGED <<jobs, cfg, now, job, maxRetries, dlq, enq, runs, decided,
                   stop, dbError,
                   sup>>

\* The queue with workers that are told to stop.
NextStop ==
    \/ Tick
    \/ LongTick
    \/ Enqueue
    \/ \E w \in Workers : Poll(w)
    \/ \E w \in Workers : ExecOk(w)
    \/ \E w \in Workers : ExecFail(w)
    \/ \E w \in Workers : Report(w)
    \/ \E w \in Workers : Signal(w)
    \/ \E w \in Workers : Exit(w)

SpecStop == Init /\ [][NextStop]_vars

\* The same, with progress: a running command terminates, and the worker's
\* own steps (the outcome writes, the exit) are taken once they can be.
SpecStopFair ==
    /\ SpecStop
    /\ \A w \in Workers :
          /\ WF_vars(ExecOk(w) \/ ExecFail(w))
          /\ WF_vars(Report(w))
          /\ WF_vars(Exit(w))

\* Faulty variant: the error of getJobForWorker is not caught.
PollErrCrashes(w) ==
    /\ pc[w] = "poll"
    /\ ~ShuttingDown(w)
    /\ dbError' = [dbError EXCEPT ![w] = "yes"]
    /\ pc' = [pc EXCEPT ![w] = "crashed"]
    /\ UNCHANGED <<jobs, cfg, now, job, maxRetries, dlq, enq, runs, decided,
                   stop,
                   sup>>

\* workerLoop: getJobForWorker throws (the transaction changed nothing); the
\* catch logs the error, sleeps one polling interval and continues.
PollErr(w) ==
    /\ pc[w] = "poll"
    /\ ~ShuttingDown(w)
    /\ dbError' = [dbError EXCEPT ![w] = "yes"]
    /\ UNCHANGED <<jobs, cfg, now, pc, job, maxRetries, dlq, enq, runs,
                   decided, stop,
                   sup>>

\* processJob: the command exits 0 but updateJobStatus(completed) throws; the
\* catch block runs as it does for a failed command, with the store's
\* error.message as errorMessage.
CompleteErr(w) ==
    /\ pc[w] = "exec"
    /\ maxRetries' = [maxRetries EXCEPT ![w] = cfg.max_retries]
    /\ jobs' = IncrementJobAttempts(jobs, job[w].id, "dberr", now)
    /\ pc' = [pc EXCEPT ![w] = "report"]
    /\ UNCHANGED <<cfg, now, job, dlq, runs, decided, enq, stop, dbError,
                   sup>>

\* processJob, catch block: incrementJobAttempts throws.  Nothing catches it:
\* `await processJob(job)` is outside workerLoop's try and workerLoop() has no
\* rejection handler, so the worker process ends.
IncrementErr(w) ==
    /\ pc[w] = "exec"
    /\ pc' = [pc EXCEPT ![w] = "crashed"]
    /\ UNCHANGED <<jobs, cfg, now, job, maxRetries, dlq, enq, runs, decided,
                   stop, dbError,
                   sup>>

\* processJob, catch block: updateJobStatus(dead / failed) throws after the
\* attempt was counted; the worker process ends in the same way.
ReportErr(w) ==
    /\ pc[w] = "report"
    /\ pc' = [pc EXCEPT ![w] = "crashed"]
    /\ maxRetries' = [maxRetries EXCEPT ![w] = 0]
    /\ UNCHANGED <<jobs, cfg, now, job, dlq, enq, runs, decided, stop,
                   dbError,
                   sup>>

\* The queue with a store whose calls can throw.
NextErr ==
    \/ Tick
    \/ LongTick
    \/ Enqueue
    \/ \E w \in Workers : Poll(w)
    \/ \E w \in Workers : PollErr(w)
    \/ \E w \in Workers : ExecOk(w)
    \/ \E w \in Workers : CompleteErr(w)
    \/ \E w \in Workers : ExecFail(w)
    \/ \E w \in Workers : IncrementErr(w)
    \/ \E w \in Workers : Report(w)
    \/ \E w \in Workers : ReportErr(w)

SpecErr == Init /\ [][NextErr]_vars

\* The queue with configuration changes, without DLQ retries.
NextCfg ==
    \/ Tick
    \/ Enqueue
    \/ ConfigSet
    \/ \E w \in Workers : Poll(w)
    \/ \E w \in Workers : ExecOk(w)
    \/ \E w \in Workers : ExecFail(w)
    \/ \E w \in Workers : Report(w)

SpecCfg == Init /\ [][NextCfg]_vars

\* A second passes while some failed job is still inside its backoff window.
Wait ==
    /\ \E i \in JobIds :
          /\ jobs[i].status = "failed"
          /\ jobs[i].last_attempt_at
                + POWER(BackoffBase(cfg), jobs[i].attempts) > now
    /\ now' = now + 1
    /\ UNCHANGED <<jobs, cfg, pc, job, maxRetries, dlq, enq, runs, decided,
                   stop, dbError, sup>>

\* The first `dlq retry` that is issued (no second one follows).
DlqRetryOnce(id) ==
    /\ dlq.said = "none"
    /\ DlqRetry(id)

\* The queue under a constant configuration, with a clock that goes on as
\* long as a job waits for it.
NextLive ==
    \/ Wait
    \/ Enqueue
    \/ \E w \in Workers : Poll(w)
    \/ \E w \in Workers : ExecOk(w)
    \/ \E w \in Workers : ExecFail(w)
    \/ \E w \in Workers : Report(w)
    \/ \E id \in JobSlots : DlqRetryOnce(id)

\* Time advances, every command terminates, and every worker keeps running
\* and gets its turn.
SpecLive ==
    /\ Init /\ [][NextLive]_vars
    /\ WF_vars(Wait)
    /\ \A w \in Workers :
          /\ WF_vars(Poll(w))
          /\ WF_vars(ExecOk(w) \/ ExecFail(w))
          /\ WF_vars(Report(w))

\* A worker process dies (it is killed, or the machine goes down) wherever
\* it is; the job variable keeps what it held, the table is not touched.
Crash(w) ==
    /\ pc[w] \in {"poll", "exec", "report"}
    /\ pc' = [pc EXCEPT ![w] = "crashed"]
    /\ maxRetries' = [maxRetries EXCEPT ![w] = 0]
    /\ UNCHANGED <<jobs, cfg, now, job, dlq, enq, runs, decided, stop,
                   dbError, sup>>

\* The queue with workers that die.
NextDie ==
    \/ Tick
    \/ LongTick
    \/ Enqueue
    \/ \E w \in Workers : Poll(w)
    \/ \E w \in Workers : ExecOk(w)
    \/ \E w \in Workers : ExecFail(w)
    \/ \E w \in Workers : Report(w)
    \/ \E w \in Workers : Crash(w)

SpecDie == Init /\ [][NextDie]_vars

\* ------------------------------------------------------------ supervisor
\* The elements of a sequence.
Range(q) == { q[i] : i \in 1..Len(q) }

\* The pids nextPid, nextPid + 1, ... that n successful forks return.
NewPids(first, n) == [i \in 1..n |-> first + i - 1]

\* Faulty variant: the registry is returned as stored, without the probe.
ReadWorkerPidsNoProbe(reg, al) == reg

\* readWorkerPids: the stored pids that answer process.kill(pid, 0), in the
\* stored order ([] when the file is missing).
ReadWorkerPids(reg, al) ==
    LET Live(p) == p \in al
    IN  SelectSeq(reg, Live)

\* Faulty variant: a given pid is signalled without looking it up.
TargetsUnchecked(active, pid) ==
    IF pid # NULL THEN <<pid>> ELSE active

\* stopWorker: the pids it sends SIGTERM, in order: the given pid if
\* activePids includes it, every active pid if none is given.
Targets(active, pid) ==
    IF pid # NULL
    THEN IF pid \in Range(active) THEN <<pid>> ELSE <<>>
    ELSE active

\* startWorker(count): `ok` of the count forks succeed (a fork that throws is
\* logged and skipped); the live registry entries followed by the new pids
\* are written, the new pids returned.
StartWorker(count, ok) ==
    /\ ok <= count
    /\ nextPid + ok - 1 <= MaxPid
    /\ LET activePids == ReadWorkerPids(registry, alive)
           startedPids == NewPids(nextPid, ok)
       IN  /\ registry' = activePids \o startedPids
           /\ alive' = alive \cup Range(startedPids)
           /\ ret' = [op |-> "start", arg |-> count, pids |-> startedPids,
                      signalled |-> {}]
    /\ nextPid' = nextPid + ok
    /\ UNCHANGED <<sigterm, inv, queue>>

\* stopWorker(pid): SIGTERM goes to the targets that exist (process.kill on
\* another pid throws ESRCH and is skipped); the pids it went to are returned
\* and taken out of the live registry entries, which are written back.  A
\* given pid that is not among them only draws a warning.
StopWorker(pid) ==
    /\ LET activePids == ReadWorkerPids(registry, alive)
           Exists(p) == p \in alive
           stoppedPids == SelectSeq(Targets(activePids, pid), Exists)
           Kept(p) == /\ p \notin Range(stoppedPids)
                      /\ ~(pid # NULL /\ pid \in Range(activePids) /\ p = pid)
       IN  /\ registry' = SelectSeq(activePids, Kept)
           /\ sigterm' = sigterm \cup Range(stoppedPids)
           /\ ret' = [op |-> "stop", arg |-> pid, pids |-> stoppedPids,
                      signalled |-> Range(stoppedPids)]
    /\ UNCHANGED <<alive, nextPid, inv, queue>>

\* The status command lists readWorkerPids(); the file is not written.
ListWorkers ==
    /\ ret' = [op |-> "list", arg |-> NULL,
               pids |-> ReadWorkerPids(registry, alive), signalled |-> {}]
    /\ UNCHANGED <<registry, alive, sigterm, nextPid, inv, queue>>

\* A worker process ends: it exits after SIGTERM, or it crashes or is killed
\* from outside.  A worker that was sent SIGTERM may also stay, draining its
\* job or not seeing the signal.
Die(p) ==
    /\ p \in alive
    /\ alive' = alive \ {p}
    /\ UNCHANGED <<registry, sigterm, ret, nextPid, inv, queue>>

\* The supervisor commands and the worker processes' ends.
NextSup ==
    \/ \E count \in 0..MaxCount : \E ok \in 0..count : StartWorker(count, ok)
    \/ \E pid \in {NULL} \cup 1..MaxPid : StopWorker(pid)
    \/ ListWorkers
    \/ \E p \in 1..MaxPid : Die(p)

SpecSup == Init /\ [][NextSup]_vars

\* startWorker / stopWorker, first statement: let activePids =
\* readWorkerPids().  For start, arg is the count; for stop, the pid or NULL.
SupRead(s, op, arg) ==
    /\ inv[s].pc = "idle"
    /\ inv' = [inv EXCEPT ![s] =
                  [pc |-> "act", op |-> op, arg |-> arg,
                   active |-> ReadWorkerPids(registry, alive),
                   moved |-> <<>>]]
    /\ UNCHANGED <<registry, alive, sigterm, ret, nextPid, queue>>

\* startWorker's fork loop, or stopWorker's process.kill calls (a pid that
\* is gone by now throws ESRCH and is skipped).
SupAct(s) ==
    /\ inv[s].pc = "act"
    /\ IF inv[s].op = "start"
       THEN /\ nextPid + inv[s].arg - 1 <= MaxPid
            /\ LET startedPids == NewPids(nextPid, inv[s].arg)
               IN  /\ alive' = alive \cup Range(startedPids)
                   /\ inv' = [inv EXCEPT ![s].pc = "write",
                                         ![s].moved = startedPids]
            /\ nextPid' = nextPid + inv[s].arg
            /\ UNCHANGED sigterm
       ELSE /\ LET Exists(p) == p \in alive
                   stoppedPids ==
                       SelectSeq(Targets(inv[s].active, inv[s].arg), Exists)
               IN  /\ sigterm' = sigterm \cup Range(stoppedPids)
                   /\ inv' = [inv EXCEPT ![s].pc = "write",
                                         ![s].moved = stoppedPids]
            /\ UNCHANGED <<alive, nextPid>>
    /\ UNCHANGED <<registry, ret, queue>>

\* writeWorkerPids(activePids) and the return: for start, activePids with
\* the started pids pushed; for stop, activePids without the stopped pids
\* (and without the given pid, if activePids included it).
SupWrite(s) ==
    /\ inv[s].pc = "write"
    /\ LET Kept(p) ==
               /\ p \notin Range(inv[s].moved)
               /\ ~(inv[s].arg # NULL /\ p = inv[s].arg)
       IN  registry' = IF inv[s].op = "start"
                       THEN inv[s].active \o inv[s].moved
                       ELSE SelectSeq(inv[s].active, Kept)
    /\ ret' = [op |-> inv[s].op, arg |-> inv[s].arg, pids |-> inv[s].moved,
               signalled |-> IF inv[s].op = "stop"
                             THEN Range(inv[s].moved) ELSE {}]
    /\ inv' = [inv EXCEPT ![s] = [Idle EXCEPT !.pc = "done"]]
    /\ UNCHANGED <<alive, sigterm, nextPid, queue>>

\* Workers started by an earlier `worker start`, before the two CLI
\* processes begin.
Prepare(count) ==
    /\ nextPid = 1
    /\ \A s \in Sups : inv[s].pc = "idle"
    /\ StartWorker(count, count)

\* Two CLI processes run startWorker or stopWorker, one call each, with
\* nothing between them but the file.
NextRace ==
    \/ \E count \in 1..MaxCount : Prepare(count)
    \/ \E s \in Sups : \E count \in 1..MaxCount : SupRead(s, "start", count)
    \/ \E s \in Sups : \E pid \in {NULL} \cup 1..MaxPid :
          SupRead(s, "stop", pid)
    \/ \E s \in Sups : SupAct(s)
    \/ \E s \in Sups : SupWrite(s)

SpecRace == Init /\ [][NextRace]_vars

\* The outcome a job already carries is reported once more: the same writes
\* against a row that is completed or dead (attempts stay within
\* MaxRetriesCfg + 1).
Reapply(id) ==
    /\ id \in JobIds
    /\ jobs[id].status \in {"completed", "dead"}
    /\ jobs[id].attempts <= MaxRetriesCfg
    /\ jobs' = ApplyOutcome(jobs, id, jobs[id].status, now)
    /\ UNCHANGED <<cfg, now, pc, job, maxRetries, dlq, enq, runs, decided, stop, dbError,
                   sup>>

\* An outcome is reported for an id the table does not hold: the UPDATEs
\* match no row.
ApplyMissing(id, outcome) ==
    /\ id \notin JobIds
    /\ jobs' = ApplyOutcome(jobs, id, outcome, now)
    /\ UNCHANGED <<cfg, now, pc, job, maxRetries, dlq, enq, runs, decided,
                   stop, dbError, sup>>

\* The queue with outcomes reported twice and for ids that do not exist.
NextApply ==
    \/ Tick
    \/ Enqueue
    \/ \E w \in Workers : Poll(w)
    \/ \E w \in Workers : ExecOk(w)
    \/ \E w \in Workers : ExecFail(w)
    \/ \E w \in Workers : Report(w)
    \/ \E id \in JobSlots : Reapply(id)
    \/ \E id \in JobSlots :
          \E outcome \in {"completed", "failed", "dead"} :
             ApplyMissing(id, outcome)
    \/ \E id \in {0} \cup JobSlots : DlqRetry(id)

SpecApply == Init /\ [][NextApply]_vars

\* ---------------------------------------------------------------- claims
\* A worker is between getJobForWorker's return and the end of processJob.
Busy(w) == pc[w] \in {"exec", "report"}

\* C1: no job is held by two workers at once.  Every job a worker holds is
\* a row in status processing, no other worker holds it, and a
\* getJobForWorker call made now would not return it; so of two workers
\* polling against one eligible job, one gets it and the other gets null.
C1_ExclusiveLease ==
    \A w \in Workers :
        Busy(w) =>
            /\ job[w].id \in JobIds
            /\ jobs[job[w].id].status = "processing"
            /\ \A v \in Workers \ {w} : Busy(v) => job[v].id # job[w].id
            /\ SelectAvailable(jobs, BackoffBase(cfg), now) # job[w].id

\* One job in the table, one worker runs it, the other worker's poll finds
\* nothing.
C1_Witness ==
    \E w, v \in Workers :
        /\ w # v
        /\ Len(jobs) = 1
        /\ pc[w] = "exec" /\ job[w].id = 1
        /\ pc[v] = "poll"
        /\ SelectAvailable(jobs, BackoffBase(cfg), now) = 0

\* The edges of the status state machine.
StatusEdges ==
    { <<"pending", "processing">>, <<"processing", "completed">>,
      <<"processing", "failed">>,  <<"processing", "dead">>,
      <<"failed", "processing">>,  <<"dead", "pending">> }

\* C2: in every step a job's status changes only along StatusEdges (so
\* completed has no outgoing edge), and a new row starts pending.
C2_StatusEdges ==
    [][ /\ Len(jobs') >= Len(jobs)
        /\ \A i \in 1..Len(jobs) :
              jobs'[i].status # jobs[i].status =>
                  <<jobs[i].status, jobs'[i].status>> \in StatusEdges
        /\ \A i \in (Len(jobs) + 1)..Len(jobs') :
              jobs'[i].status = "pending" ]_vars

\* A job was reset from the DLQ and is pending again while another one is
\* completed.
C2_Witness ==
    /\ dlq.changes = 1
    /\ \E i, k \in JobIds :
          jobs[i].status = "pending" /\ jobs[k].status = "completed"

C4_DeadAtConfigured ==
    \A i \in JobIds :
        jobs[i].status = "dead" => jobs[i].attempts >= cfg.max_retries

\* C4, amended: every dead job has attempts >= the maxRetries that was read
\* from the configuration when the failure that made it dead was reported
\* (max_retries may have been raised since).
C4_DeadAtDecided ==
    \A i \in JobIds :
        jobs[i].status = "dead" =>
            /\ decided[i] # NULL
            /\ jobs[i].attempts >= decided[i]

\* A dead job whose attempts are below the max_retries now configured.
C4_Witness ==
    \E i \in JobIds :
        /\ jobs[i].status = "dead"
        /\ decided[i] # NULL
        /\ jobs[i].attempts >= decided[i]
        /\ jobs[i].attempts < cfg.max_retries

\* C5: a job returned by getJobForWorker was, just before the claim, pending
\* or failed with its backoff window over, and carried no live lease.
C5_ClaimedWasEligible ==
    [][ \A w \in Workers :
          (pc[w] = "poll" /\ pc'[w] = "exec") =>
              LET r == jobs[job'[w].id]
                  base == IF cfg.backoff_base = 0 THEN 2 ELSE cfg.backoff_base
              IN  /\ job'[w].id \in JobIds
                  /\ r.status \in {"pending", "failed"}
                  /\ r.status = "failed" =>
                        \/ r.last_attempt_at = NULL
                        \/ r.last_attempt_at + POWER(base, r.attempts) <= now
                  /\ (r.locked_until = NULL \/ r.locked_until <= now) ]_vars

\* A failed job was leased again (the worker's snapshot carries attempts >= 1)
\* while the clock shows that its backoff window has just been reached.
C5_Witness ==
    \E w \in Workers :
        /\ pc[w] = "exec"
        /\ job[w].attempts >= 1
        /\ jobs[job[w].id].last_attempt_at
              + POWER(BackoffBase(cfg), job[w].attempts) = now

\* A step in which worker w's run of its job's command ends.
RunEnds(w) == pc[w] = "exec" /\ pc'[w] # "exec"

\* C6 as stated: attempts never decreases and grows by one with every run of
\* the command, successful or not.
C6_OncePerRun ==
    [][ /\ \A i \in 1..Len(jobs) : jobs'[i].attempts >= jobs[i].attempts
        /\ \A w \in Workers :
              RunEnds(w) =>
                  jobs'[job[w].id].attempts = jobs[job[w].id].attempts + 1
      ]_vars

\* C6, amended: attempts never decreases except that a DLQ retry of a dead
\* job resets it to 0; it grows by exactly one with every failed run and is
\* left alone by a successful run.  So attempts counts the failed runs since
\* the job was enqueued or last reset.
C6_OncePerFailedRun ==
    /\ [][ /\ \A i \in 1..Len(jobs) :
                \/ jobs'[i].attempts = jobs[i].attempts
                \/ /\ jobs'[i].attempts = jobs[i].attempts + 1
                   /\ \E w \in Workers :
                         job[w].id = i /\ pc[w] = "exec" /\ pc'[w] = "report"
                \/ /\ jobs'[i].attempts = 0
                   /\ jobs[i].status = "dead" /\ jobs'[i].status = "pending"
           /\ \A w \in Workers :
                RunEnds(w) =>
                    jobs'[job[w].id].attempts = jobs[job[w].id].attempts
                        + (IF pc'[w] = "report" THEN 1 ELSE 0)
         ]_vars
    /\ [](\A i \in JobIds :
            /\ jobs[i].status \in {"failed", "dead"} =>
                  jobs[i].attempts = runs[i]
            /\ jobs[i].status = "completed" =>
                  jobs[i].attempts = runs[i] - 1
            /\ jobs[i].status = "pending" =>
                  jobs[i].attempts = 0 /\ runs[i] = 0)

\* A job that failed once and then succeeded: two runs, attempts 1.
C6_Witness ==
    \E i \in JobIds :
        jobs[i].status = "completed" /\ runs[i] = 2 /\ jobs[i].attempts = 1

\* C7: a successful run leaves the job completed with completed_at set, no
\* lease, and the attempts it had when it was leased; a completed job stays
\* completed, with the same attempts.
C7_Completed ==
    [][ /\ \A w \in Workers :
              (pc[w] = "exec" /\ pc'[w] = "poll") =>
                  LET r == jobs'[job[w].id]
                  IN  /\ r.status = "completed"
                      /\ r.completed_at # NULL
                      /\ r.locked_until = NULL
                      /\ r.attempts = job[w].attempts
                      /\ runs[job[w].id] = 1 => r.attempts = 0
        /\ \A i \in 1..Len(jobs) :
              jobs[i].status = "completed" =>
                  /\ jobs'[i].status = "completed"
                  /\ jobs'[i].attempts = jobs[i].attempts
                  /\ jobs'[i].completed_at = jobs[i].completed_at ]_vars

\* A fresh job completed at its first run, and a retried one completed.
C7_Witness ==
    \E i, k \in JobIds :
        /\ jobs[i].status = "completed" /\ jobs[i].attempts = 0
        /\ jobs[i].completed_at # NULL /\ jobs[i].locked_until = NULL
        /\ jobs[k].status = "completed" /\ jobs[k].attempts = 1

\* C8: with max_retries = N a job whose command always fails is dead only
\* after N + 1 runs (the first one and N retries).
C8_RetriedNTimes ==
    \A i \in JobIds :
        (jobs[i].status = "dead" /\ decided[i] # NULL) =>
            runs[i] = decided[i] + 1

\* The rows that are listed under a status.
Listed(js, st) ==
    { GetJobsByStatus(js, st)[n] : n \in 1..Len(GetJobsByStatus(js, st)) }

\* C9: a DLQ retry changes the table only by resetting one dead row: that
\* row becomes pending with attempts 0 and no error message, last attempt
\* or lease, is then listed under pending, and every other row and column is
\* as before.  No step other than a worker's, an enqueue, or such a reset
\* changes a row, so a retry of a row that is not dead, or of no row,
\* changes nothing.
C9_DlqReset ==
    [][ /\ \A i \in 1..Len(jobs) :
              (jobs[i].status = "dead" /\ jobs'[i] # jobs[i]) =>
                  /\ jobs'[i].status = "pending"
                  /\ jobs'[i].attempts = 0
                  /\ jobs'[i].error_message = "NULL"
                  /\ jobs'[i].last_attempt_at = NULL
                  /\ jobs'[i].locked_until = NULL
                  /\ jobs'[i].created_at = jobs[i].created_at
                  /\ jobs'[i].completed_at = jobs[i].completed_at
                  /\ i \in Listed(jobs', "pending")
                  /\ \A k \in 1..Len(jobs) \ {i} : jobs'[k] = jobs[k]
                  /\ Len(jobs') = Len(jobs)
        /\ (pc' = pc /\ Len(jobs') = Len(jobs) /\ jobs' # jobs) =>
              \E i \in 1..Len(jobs) :
                  /\ jobs[i].status = "dead"
                  /\ jobs'[i].status = "pending"
                  /\ \A k \in 1..Len(jobs) \ {i} : jobs'[k] = jobs[k]
        /\ (dlq' # dlq /\ dlq'.changes = 0) => jobs' = jobs ]_vars

\* A retry has reset a dead job, which is pending and listed so, and the
\* other job of the table is there, dead.
C9_Witness ==
    /\ dlq.changes = 1
    /\ \E i, k \in JobIds :
          /\ jobs[i].status = "pending" /\ jobs[i].attempts = 0
          /\ i \in Listed(jobs, "pending")
          /\ jobs[k].status = "dead"

\* C10: the DLQ retry command reports success only when it reset a dead job;
\* for an id that does not exist or a job that is not dead it reports an
\* error.
C10_ReportsNotFound ==
    dlq.said = "success" => dlq.changes = 1

\* C11: an enqueue that ends with an error (empty or missing command, or an
\* id some job already carries) leaves the table as it was; an enqueue that
\* succeeds appends exactly one row, pending, attempts 0, no lease, with a
\* non-empty command and an id above every existing id.  So no two rows
\* ever share an id or a non-null user_id.
C11_Enqueue ==
    /\ [][ /\ (enq' = "error" /\ enq' # enq) => jobs' = jobs
           /\ (enq' = "ok" /\ enq' # enq) => Len(jobs') = Len(jobs) + 1
           /\ Len(jobs') # Len(jobs) =>
                 LET r == jobs'[Len(jobs')]
                 IN  /\ enq' = "ok"
                     /\ jobs' = Append(jobs, r)
                     /\ r.status = "pending" /\ r.attempts = 0
                     /\ r.locked_until = NULL
                     /\ r.command # ""
                     /\ \A i \in 1..Len(jobs) : r.id > jobs[i].id
                     /\ \A i \in 1..Len(jobs) :
                           r.user_id = "NULL" \/ r.user_id # jobs[i].user_id
         ]_vars
    /\ [](\A i, k \in JobIds :
            i # k => /\ jobs[i].id # jobs[k].id
                     /\ \/ jobs[i].user_id = "NULL"
                        \/ jobs[i].user_id # jobs[k].user_id)

\* Two rows carry different ids of the caller's, and the last enqueue (a
\* third one, or one between the two) ended with an error.
C11_Witness ==
    /\ Len(jobs) = 2
    /\ jobs[1].user_id = "a" /\ jobs[2].user_id = "b"
    /\ jobs[1].id < jobs[2].id
    /\ enq = "error"

\* C12: reporting the terminal outcome a job already carries changes neither
\* its status nor its attempts: as long as a completed or dead job keeps its
\* status, its attempts stay what they were.
C12_Idempotent ==
    [][ \A i \in 1..Len(jobs) :
          (jobs[i].status \in {"completed", "dead"}
           /\ jobs'[i].status = jobs[i].status) =>
              jobs'[i].attempts = jobs[i].attempts ]_vars

C14_GracefulStop ==
    /\ [][ \A w \in Workers :
             /\ stop[w] => ~(pc[w] = "poll" /\ pc'[w] = "exec")
             /\ (pc'[w] = "exited" /\ pc[w] # "exited") =>
                   (stop[w] /\ pc[w] = "poll" /\ job[w] = NoJob) ]_vars
    /\ [](\A i \in JobIds :
            jobs[i].status = "processing" =>
               \E w \in Workers :
                  pc[w] \in {"exec", "report"} /\ job[w].id = i)

\* Every worker has exited; job 1 was completed while job 2 was already
\* waiting, and job 2 still waits: the worker that ran job 1 wrote its
\* outcome and then left without leasing job 2.
C14_Witness ==
    /\ \A w \in Workers : pc[w] = "exited"
    /\ Len(jobs) = 2
    /\ jobs[1].status = "completed"
    /\ jobs[2].status = "pending"
    /\ jobs[2].created_at < jobs[1].completed_at

\* C15: a worker whose stop flag is set eventually exits, and from the flag
\* on it makes no further call of getJobForWorker (so an idle worker's next
\* step is its exit, a busy one's are the end of its command and the outcome
\* writes).
C15_EventuallyExits ==
    /\ \A w \in Workers : stop[w] ~> (pc[w] = "exited")
    /\ [][ \A w \in Workers : stop[w] => ~Poll(w) ]_vars

\* Every worker has exited and the one job of the table has been run and
\* reported as failed: its worker exited after the report.
C15_Witness ==
    /\ \A w \in Workers : pc[w] = "exited"
    /\ Len(jobs) = 1
    /\ jobs[1].status = "failed"
    /\ runs[1] = 1

\* C16: when getJobForWorker throws, the worker holds no job, no row
\* changes, and the worker stays in its loop: it is at the poll again and
\* the next poll can be made.
C16_AcquireError ==
    /\ [][ \A w \in Workers :
             (dbError'[w] = "yes" /\ dbError[w] # "yes") =>
                 /\ jobs' = jobs
                 /\ pc[w] = "poll" /\ pc'[w] = "poll"
                 /\ job'[w] = NoJob ]_vars
    /\ [](\A w \in Workers :
            dbError[w] = "yes" =>
               /\ pc[w] = "poll" /\ job[w] = NoJob
               /\ ENABLED Poll(w))

\* A worker whose getJobForWorker threw earlier has polled again and now
\* runs a job.
C16_Witness ==
    \E w \in Workers : dbError[w] = "past" /\ pc[w] = "exec"

\* C17: a store error while an outcome is reported neither ends the worker
\* nor leaves the job in processing with nobody to report on it.
C17_SurvivesReportError ==
    /\ \A w \in Workers : pc[w] # "crashed"
    /\ \A i \in JobIds :
          jobs[i].status = "processing" =>
             \E w \in Workers :
                pc[w] \in {"exec", "report"} /\ job[w].id = i

\* C18: a call startWorker(count) in which `ok` forks succeed (all of them
\* unless fork throws) returns exactly the pids of the processes it created,
\* which are new and now exist, and leaves in the registry the previously
\* stored pids that still exist, in their order, followed by the new ones.
C18_StartWorker ==
    [][ \A count \in 0..MaxCount : \A ok \in 0..count :
          StartWorker(count, ok) =>
              LET new == ret'.pids
                  StillAlive(p) == p \in alive
              IN  /\ Len(new) = ok
                  /\ Cardinality(Range(new)) = Len(new)
                  /\ Range(new) \cap (alive \cup Range(registry)) = {}
                  /\ alive' = alive \cup Range(new)
                  /\ registry' = SelectSeq(registry, StillAlive) \o new ]_vars

\* The last call started worker 3; the registry held 1 and 2 before, of
\* which 1 had died without being stopped: it now holds 2 and 3.
C18_Witness ==
    /\ ret.op = "start" /\ ret.pids = <<3>>
    /\ registry = <<2, 3>>
    /\ alive = {2, 3}
    /\ sigterm = {}

\* C19: stopWorker sends SIGTERM only to pids stored in the registry, and
\* ends no process itself.  With a pid that is not stored it signals nothing
\* and returns no pid; with a stored pid it signals that process alone (if it
\* exists); with no pid it signals every stored pid that exists.
C19_StopTargets ==
    [][ \A pid \in {NULL} \cup 1..MaxPid :
          StopWorker(pid) =>
              LET reg == Range(registry)
                  sent == ret'.signalled
              IN  /\ sent \subseteq reg
                  /\ sigterm' = sigterm \cup sent
                  /\ alive' = alive
                  /\ Range(ret'.pids) = sent
                  /\ (pid # NULL /\ pid \notin reg) =>
                        (sent = {} /\ ret'.pids = <<>>)
                  /\ (pid # NULL /\ pid \in reg) =>
                        sent = {pid} \cap alive
                  /\ pid = NULL => sent = reg \cap alive ]_vars

\* stopWorker was last called with the pid of a process that exists but is
\* not in the registry, which holds another live worker: nothing was
\* signalled, and that worker has never been sent SIGTERM.
C19_Witness ==
    /\ ret.op = "stop" /\ ret.arg # NULL
    /\ ret.arg \in alive /\ ret.arg \notin Range(registry)
    /\ ret.pids = <<>> /\ ret.signalled = {}
    /\ \E p \in Range(registry) : p \in alive /\ p \notin sigterm

\* C20: a worker process that was sent SIGTERM and still exists is still in
\* the registry.
C20_StaysRegistered ==
    \A p \in sigterm \cap alive : p \in Range(registry)

\* C21: listing the workers returns exactly the stored pids whose processes
\* exist, signals and ends no process, and leaves no pid of a vanished
\* process in the registry file.
C21_ListPrunes ==
    [][ ListWorkers =>
            LET StillAlive(p) == p \in alive
            IN  /\ ret'.pids = SelectSeq(registry, StillAlive)
                /\ sigterm' = sigterm /\ alive' = alive
                /\ Range(registry') \subseteq alive ]_vars

\* C22: the job a dead worker held stays in processing, getJobForWorker does
\* not select it, and no worker claims it, whatever the clock shows.
C22_DeadWorkersJob ==
    /\ [](\A w \in Workers :
            (pc[w] = "crashed" /\ job[w].id # 0) =>
               /\ jobs[job[w].id].status = "processing"
               /\ SelectAvailable(jobs, BackoffBase(cfg), now) # job[w].id)
    /\ [][ \A w, v \in Workers :
             (pc[w] = "crashed" /\ job[w].id # 0
              /\ pc[v] = "poll" /\ pc'[v] = "exec") =>
                 job'[v].id # job[w].id ]_vars

\* One worker died while it ran job 1, whose lease has since expired; the
\* other died between counting the failure of job 2 and writing its status,
\* so that job 2 is in processing with no lease and one attempt.
C22_Witness ==
    \E w, v \in Workers :
        /\ pc[w] = "crashed" /\ job[w].id = 1
        /\ jobs[1].locked_until # NULL /\ jobs[1].locked_until <= now
        /\ pc[v] = "crashed" /\ job[v].id = 2
        /\ jobs[2].status = "processing"
        /\ jobs[2].locked_until = NULL /\ jobs[2].attempts = 1

\* C23: every decision uses the configuration as stored when it is made.
\* The failure report compares against the max_retries it has just read; a
\* claim takes a failed job only if its backoff window under the stored
\* backoff_base is over; and a polling worker does claim when some job is
\* eligible under the stored backoff_base.
C23_ConfigReadFresh ==
    /\ [][ \A w \in Workers :
             LET base == IF cfg.backoff_base = 0 THEN 2 ELSE cfg.backoff_base
             IN  /\ (pc[w] = "exec" /\ pc'[w] = "report") =>
                       maxRetries'[w] = cfg.max_retries
                 /\ (pc[w] = "report" /\ pc'[w] = "poll") =>
                       (jobs'[job[w].id].status = "dead"
                          <=> job[w].attempts + 1 >= maxRetries[w])
                 /\ (pc[w] = "poll" /\ pc'[w] = "exec") =>
                       LET r == jobs[job'[w].id]
                       IN  r.status = "failed" =>
                             r.last_attempt_at + POWER(base, r.attempts) <= now
           ]_vars
    /\ [](\A w \in Workers :
            LET base == IF cfg.backoff_base = 0 THEN 2 ELSE cfg.backoff_base
            IN  (pc[w] = "poll" /\ \E i \in JobIds : Eligible(jobs[i], base, now))
                   => ENABLED (Poll(w) /\ pc'[w] = "exec"))

\* Two jobs enqueued in the same second are dead: one after two failures,
\* reported when max_retries was 2, the other after one, reported when it
\* was 1.  The running workers picked up the change.
C23_Witness ==
    \E i, k \in JobIds :
        /\ jobs[i].status = "dead" /\ decided[i] = 2 /\ jobs[i].attempts = 2
        /\ jobs[k].status = "dead" /\ decided[k] = 1 /\ jobs[k].attempts = 1
        /\ jobs[i].created_at = jobs[k].created_at

\* C24: under a constant configuration, whatever the table holds at some
\* point, a later point comes at which every job in it (rows are never
\* deleted) is completed or dead.
C24_EventuallyTerminal ==
    []<>(\A i \in JobIds : jobs[i].status \in {"completed", "dead"})

\* Job 1 failed into the DLQ, a DLQ retry reset it, it was leased once more
\* and is completed; job 2 failed, waited out its backoff window, was leased
\* again and is completed after two runs.
C24_Witness ==
    /\ Len(jobs) = 2
    /\ dlq.said = "success" /\ dlq.changes = 1
    /\ jobs[1].status = "completed" /\ jobs[1].attempts = 0 /\ runs[1] = 1
    /\ jobs[2].status = "completed" /\ jobs[2].attempts = 1 /\ runs[2] = 2

\* C25: no row carries a counted attempt or a failed / dead status for a run
\* whose command exited 0: no row's error_message is that of a completion
\* write that threw.
C25_SuccessNotFailed ==
    \A i \in JobIds : jobs[i].error_message # "dberr"

\* C26: whenever no workerManager call is under way (none has begun, or
\* those that began have returned), every worker process
\* that exists and was not sent SIGTERM is in the registry.
C26_NoLostUpdate ==
    (\A s \in Sups : inv[s].pc \in {"idle", "done"}) =>
        \A p \in alive \ sigterm : p \in Range(registry)

\* C27: a row with a lease is in processing; every write to a row other
\* than the claim (the outcome writes, the attempts increment, the DLQ
\* reset) leaves it without a lease; and an outcome reported for an id the
\* table does not hold changes nothing.
C27_LeaseOnlyProcessing ==
    /\ [](\A i \in JobIds :
            jobs[i].locked_until # NULL => jobs[i].status = "processing")
    /\ [][ /\ \A i \in 1..Len(jobs) :
                (jobs'[i] # jobs[i]
                 /\ ~(jobs[i].status \in {"pending", "failed"}
                      /\ jobs'[i].status = "processing")) =>
                    jobs'[i].locked_until = NULL
           /\ \A id \in JobSlots :
                \A outcome \in {"completed", "failed", "dead"} :
                   ApplyMissing(id, outcome) => jobs' = jobs ]_vars

\* Job 1 went through the failure writes into the DLQ and was reset by a
\* DLQ retry: it is pending with no lease.  Job 2 is leased, and an outcome
\* for id 3 would find no row.
C27_Witness ==
    /\ Len(jobs) = 2
    /\ dlq.said = "success" /\ dlq.changes = 1
    /\ jobs[1].status = "pending" /\ jobs[1].locked_until = NULL
    /\ jobs[2].status = "processing" /\ jobs[2].locked_until # NULL

====
